---- MODULE Spec2Model ----
(***************************************************************************)
(* The in-memory task list of src/index.js (src/unnamed/part_000 is the    *)
(* same program listening on another port): an array `tasks` and the       *)
(* handlers GET /, GET /tasks, POST /tasks, PUT /tasks/:id and             *)
(* DELETE /tasks/:id.  Node runs one handler to completion at a time, so   *)
(* each handler is one action.                                             *)
(*                                                                         *)
(* express.json() is taken to hand the handler an object as req.body       *)
(* (index.js:39-45); the title is whatever JSON value the client put       *)
(* there, or undefined.                                                    *)
(***************************************************************************)
EXTENDS Integers, Sequences, FiniteSets

VARIABLES
  tasks,     \* the array `tasks`
  now,       \* the value Date.now() returns
  req,       \* history: the last request handled
  res,       \* history: the response to it
  prev,      \* history: `tasks` when that request arrived
  rep,       \* history: the request before `req` was the same request,
             \* answered with the same status
  created,   \* history: the tasks answered by the successful creates, in order
  noDelete   \* history: no DELETE request was handled so far

vars == <<tasks, now, req, res, prev, rep, created, noDelete>>

----------------------------------------------------------------------------
(* Bounds *)

MaxTasks == 3      \* POST is not issued once the array holds this many tasks
MaxClock == 3      \* Date.now() ranges over 1..MaxClock

----------------------------------------------------------------------------
(* JSON values a client can send as `title` *)

Undefined == [type |-> "undefined", v |-> ""]
Null      == [type |-> "null", v |-> ""]
Str(s)    == [type |-> "string", v |-> s]
Num(s)    == [type |-> "number", v |-> s]
Bool(s)   == [type |-> "boolean", v |-> s]
Arr       == [type |-> "object", v |-> "[]"]

Titles == {Undefined, Null, Str(""), Num("0"), Bool("false"),
           Str("Buy milk"), Arr}

\* `!title` is false: a title the check lets through without being a
\* defined value at all
TruthyDefinedOnly(v) == v.type # "undefined"

\* `!title` is false: a title the check lets through whatever it is
TruthyAlways(v) == TRUE

\* JavaScript ToBoolean, as `!title` applies it
Truthy(v) ==
  CASE v.type = "undefined" -> FALSE
    [] v.type = "null"      -> FALSE
    [] v.type = "boolean"   -> v.v = "true"
    [] v.type = "number"    -> v.v \notin {"0", "NaN"}
    [] v.type = "string"    -> v.v # ""
    [] OTHER                -> TRUE

----------------------------------------------------------------------------
(* The :id path segment and Number(req.params.id) *)

DigitChars == <<"0", "1", "2", "3", "4", "5", "6", "7", "8", "9">>

DigitVal(c) == (CHOOSE k \in DOMAIN DigitChars : DigitChars[k] = c) - 1

IsDigit(c) == \E k \in DOMAIN DigitChars : DigitChars[k] = c

\* the :id segments requests carry: every clock value in decimal, one
\* with a leading zero, one no task has, one that is no number and one that
\* only starts as a number
Segs == {<<DigitChars[d + 1]>> : d \in 1..MaxClock}
          \cup {<<"0", "1">>, <<"1", "0">>, <<"a">>, <<"1", "a">>}

RECURSIVE Decimal(_)
Decimal(seg) ==
  IF seg = << >> THEN 0
  ELSE 10 * Decimal(SubSeq(seg, 1, Len(seg) - 1)) + DigitVal(seg[Len(seg)])

NaN == [nan |-> TRUE, val |-> 0]

\* Number() of a non-empty string of decimal digits and letters
Number(seg) ==
  IF \A k \in DOMAIN seg : IsDigit(seg[k])
  THEN [nan |-> FALSE, val |-> Decimal(seg)]
  ELSE NaN

\* task.id === id, for an integer task id and a Number() result
StrictEq(tid, n) == ~n.nan /\ tid = n.val

----------------------------------------------------------------------------
(* Array helpers *)

\* newTask with the flag already set
NewTaskDone(title, ts) == [id |-> ts, title |-> title, completed |-> TRUE]

NewTask(title, ts) == [id |-> ts, title |-> title, completed |-> FALSE]

\* unshift instead of push
PushFront(ts, t) == <<t>> \o ts

Push(ts, t) == Append(ts, t)

RECURSIVE FindFrom(_, _, _)
FindFrom(ts, n, i) ==
  IF i > Len(ts) THEN 0
  ELSE IF StrictEq(ts[i].id, n) THEN i
  ELSE FindFrom(ts, n, i + 1)

\* the last match instead of the first
FindLast(ts, n) ==
  IF \E i \in DOMAIN ts : StrictEq(ts[i].id, n)
  THEN CHOOSE i \in DOMAIN ts :
         /\ StrictEq(ts[i].id, n)
         /\ \A j \in DOMAIN ts : j > i => ~StrictEq(ts[j].id, n)
  ELSE 0

\* the first element when nothing matches
FindOrFirst(ts, n) ==
  IF \E i \in DOMAIN ts : StrictEq(ts[i].id, n)
  THEN CHOOSE i \in DOMAIN ts :
         /\ StrictEq(ts[i].id, n)
         /\ \A j \in DOMAIN ts : j < i => ~StrictEq(ts[j].id, n)
  ELSE IF ts = << >> THEN 0 ELSE 1

\* tasks.find(task => task.id === id): the index of the element found,
\* 0 for undefined
Find(ts, n) == FindFrom(ts, n, 1)

\* mark as done instead of toggling
ToggledDone(t) == [t EXCEPT !.completed = TRUE]

Toggled(t) == [t EXCEPT !.completed = ~t.completed]

\* splice out the first match only
FilterFirst(ts, n) ==
  LET i == FindFrom(ts, n, 1)
  IN  IF i = 0 THEN ts
      ELSE SubSeq(ts, 1, i - 1) \o SubSeq(ts, i + 1, Len(ts))

RECURSIVE Filter(_, _)
\* tasks.filter(task => task.id !== id)
Filter(ts, n) ==
  IF ts = << >> THEN << >>
  ELSE IF ~StrictEq(Head(ts).id, n)
       THEN <<Head(ts)>> \o Filter(Tail(ts), n)
       ELSE Filter(Tail(ts), n)

----------------------------------------------------------------------------
(* State machine *)

NoReq == [method |-> "NONE", path |-> "", arg |-> << >>]
NoRes == [status |-> 0, body |-> << >>]

Init ==
  /\ tasks = << >>
  /\ now = 1
  /\ req = NoReq /\ res = NoRes /\ prev = << >>
  /\ rep = FALSE
  /\ created = << >>
  /\ noDelete = TRUE

\* requests q and r have the same method and path, and for /tasks/:id the
\* same Number(req.params.id), for POST the same title
SameRequest(q, r) ==
  /\ q.method = r.method
  /\ q.path = r.path
  /\ IF r.path = "/tasks/:id" THEN Number(q.arg) = Number(r.arg)
                              ELSE q.arg = r.arg

\* bookkeeping of the history variables when request r is answered with s
Handled(r, s) ==
  /\ req' = r /\ res' = s /\ prev' = tasks
  /\ rep' = (SameRequest(req, r) /\ res.status = s.status)

\* the clock advances between requests
Tick ==
  /\ now < MaxClock
  /\ now' = now + 1
  /\ UNCHANGED <<tasks, req, res, prev, rep, created, noDelete>>

\* GET /
Root ==
  /\ Handled([method |-> "GET", path |-> "/", arg |-> << >>],
             [status |-> 200, body |-> "API is running"])
  /\ UNCHANGED <<tasks, now, created, noDelete>>

\* GET /tasks
List ==
  /\ Handled([method |-> "GET", path |-> "/tasks", arg |-> << >>],
             [status |-> 200, body |-> tasks])
  /\ UNCHANGED <<tasks, now, created, noDelete>>

\* POST /tasks
Post(title) ==
  LET r == [method |-> "POST", path |-> "/tasks", arg |-> title]
  IN  IF ~Truthy(title)
      THEN /\ Handled(r, [status |-> 400,
                          body |-> [error |-> "Title is required"]])
           /\ UNCHANGED <<tasks, now, created, noDelete>>
      ELSE LET newTask == NewTask(title, now)
           IN  /\ Len(tasks) < MaxTasks
               /\ tasks' = Push(tasks, newTask)
               /\ Handled(r, [status |-> 201, body |-> newTask])
               /\ created' = IF noDelete THEN Append(created, newTask)
                                         ELSE created
               /\ UNCHANGED <<now, noDelete>>

\* PUT /tasks/:id
Put(seg) ==
  LET r  == [method |-> "PUT", path |-> "/tasks/:id", arg |-> seg]
      id == Number(seg)
      i  == Find(tasks, id)
  IN  IF i = 0
      THEN /\ Handled(r, [status |-> 404,
                          body |-> [error |-> "Task not found"]])
           /\ UNCHANGED <<tasks, now, created, noDelete>>
      ELSE /\ tasks' = [tasks EXCEPT ![i] = Toggled(tasks[i])]
           /\ Handled(r, [status |-> 200, body |-> Toggled(tasks[i])])
           /\ UNCHANGED <<now, created, noDelete>>

\* DELETE /tasks/:id
Delete(seg) ==
  LET r  == [method |-> "DELETE", path |-> "/tasks/:id", arg |-> seg]
      id == Number(seg)
  IN  /\ tasks' = Filter(tasks, id)
      /\ Handled(r, [status |-> 200,
                     body |-> [message |-> "Task deleted successfully"]])
      /\ noDelete' = FALSE
      /\ created' = << >>
      /\ UNCHANGED now

Next ==
  \/ Tick
  \/ Root
  \/ List
  \/ \E title \in Titles : Post(title)
  \/ \E seg \in Segs : Put(seg)
  \/ \E seg \in Segs : Delete(seg)

Spec == Init /\ [][Next]_vars

----------------------------------------------------------------------------
(* Shape of the state *)

TypeOK ==
  /\ now \in 1..MaxClock
  /\ Len(tasks) <= MaxTasks
  /\ \A i \in DOMAIN tasks :
       /\ tasks[i].id \in 1..now
       /\ tasks[i].title \in Titles
       /\ tasks[i].completed \in BOOLEAN

----------------------------------------------------------------------------
(* The last request handled *)

IsPost   == req.method = "POST"
IsPut    == req.method = "PUT"
IsDelete == req.method = "DELETE"
IsList   == req.method = "GET" /\ req.path = "/tasks"

\* the id the last PUT or DELETE asked for
ReqId == Number(req.arg)

\* the positions of ts that hold a task whose id is n
Holders(ts, n) == {i \in DOMAIN ts : ~n.nan /\ ts[i].id = n.val}

TitleRequired == [status |-> 400, body |-> [error |-> "Title is required"]]
TaskNotFound  == [status |-> 404, body |-> [error |-> "Task not found"]]
Deleted       == [status |-> 200,
                  body |-> [message |-> "Task deleted successfully"]]

----------------------------------------------------------------------------
(* Claims *)

\* C1: no two tasks in the registry have the same id, also when two creates
\* are handled while Date.now() returns the same value.
C1_UniqueIds ==
  \A i, j \in DOMAIN tasks : i # j => tasks[i].id # tasks[j].id

\* C2: a delete request removes at most one task (the length decreases by 0
\* or 1) and is answered 200 with the success message.
C2_DeleteAtMostOne ==
  IsDelete => /\ Len(prev) - Len(tasks) \in {0, 1}
              /\ res = Deleted

\* C3: a create request whose title is missing or empty is answered 400
\* "Title is required" and leaves the registry as it was.
C3_EmptyTitleRejected ==
  (IsPost /\ req.arg \in {Undefined, Str("")})
    => (res = TitleRequired /\ tasks = prev)

C3_Witness ==
  /\ IsPost /\ req.arg = Str("")
  /\ res.status = 400
  /\ Len(prev) >= 2
  /\ \E i \in DOMAIN prev : prev[i].completed

\* C4: a toggle request for an id no task has is answered 404 "Task not
\* found" and leaves the registry as it was.
C4_ToggleUnknownId ==
  (IsPut /\ Holders(prev, ReqId) = {})
    => (res = TaskNotFound /\ tasks = prev)

C4_Witness ==
  /\ IsPut /\ Holders(prev, ReqId) = {}
  /\ ~ReqId.nan
  /\ res.status = 404
  /\ Len(prev) >= 2

\* C5: a create request with a non-empty title is answered 201 and appends
\* exactly one task at the end of the registry, with the given title and
\* completed = false; the response carries that task.
C5_CreateAppends ==
  (IsPost /\ req.arg.type = "string" /\ req.arg.v # "")
    => /\ res.status = 201
       /\ Len(tasks) = Len(prev) + 1
       /\ \A i \in DOMAIN prev : tasks[i] = prev[i]
       /\ tasks[Len(tasks)].title = req.arg
       /\ tasks[Len(tasks)].completed = FALSE
       /\ res.body = tasks[Len(tasks)]

C5_Witness ==
  /\ IsPost /\ req.arg = Str("Buy milk")
  /\ res.status = 201
  /\ Len(prev) >= 1
  /\ prev[1].completed

\* C6: for an id a task holds, two consecutive toggle requests are both
\* answered 200 and leave the registry as it was before the first of them.
C6_ToggleTwice ==
  [][\A seg \in Segs :
       (IsPut /\ Holders(prev, ReqId) # {} /\ Put(seg) /\ Number(seg) = ReqId)
         => (res.status = 200 /\ res'.status = 200 /\ tasks' = prev)]_vars

C6_Witness ==
  /\ IsPut /\ rep
  /\ res.status = 200
  /\ Holders(prev, ReqId) # {}
  /\ Len(tasks) >= 2

\* C7: after N successful creates and no delete, GET /tasks is answered 200
\* with exactly N tasks, in the order they were created, however toggles and
\* rejected requests are interleaved.
C7_ListInCreationOrder ==
  (IsList /\ noDelete)
    => /\ res.status = 200
       /\ Len(res.body) = Len(created)
       /\ \A i \in DOMAIN created :
            /\ res.body[i].id = created[i].id
            /\ res.body[i].title = created[i].title

C7_Witness ==
  /\ IsList /\ noDelete
  /\ Len(created) >= 2
  /\ created[1].title # created[2].title
  /\ \E i \in DOMAIN res.body : res.body[i].completed

\* C8: every task in the registry has a title that is neither absent nor
\* empty.
C8_TitlesNonEmpty ==
  \A i \in DOMAIN tasks : tasks[i].title \notin {Undefined, Null, Str("")}

C8_Witness ==
  /\ Len(tasks) >= 2
  /\ ~noDelete
  /\ IsPost /\ res.status = 400
  /\ \E i \in DOMAIN tasks : tasks[i].completed

\* C9: a successful toggle flips the completed flag of the first task whose
\* id is the one asked for and changes nothing else: not that task's id or
\* title, no other task, not the length or the order; the response carries
\* the task with the flipped flag.
C9_ToggleFrame ==
  (IsPut /\ res.status = 200)
    => \E i \in Holders(prev, ReqId) :
         /\ \A j \in Holders(prev, ReqId) : i <= j
         /\ Len(tasks) = Len(prev)
         /\ \A j \in DOMAIN prev : j # i => tasks[j] = prev[j]
         /\ tasks[i].id = prev[i].id
         /\ tasks[i].title = prev[i].title
         /\ tasks[i].completed = ~prev[i].completed
         /\ res.body = tasks[i]

C9_Witness ==
  /\ IsPut /\ res.status = 200
  /\ Cardinality(Holders(prev, ReqId)) >= 2
  /\ Len(prev) >= 3

\* the positions of prev a delete of ReqId keeps
Kept == DOMAIN prev \ Holders(prev, ReqId)

\* the k-th kept position
KeptAt(k) == CHOOSE i \in Kept : Cardinality({j \in Kept : j <= i}) = k

\* C10: after a delete no task has the id asked for and the tasks with
\* another id are all there, unchanged and in the same relative order; a
\* delete of an absent id, and a second delete of the same id right after
\* the first, leave the registry unchanged.
C10_DeleteFrame ==
  /\ [](IsDelete =>
          /\ Holders(tasks, ReqId) = {}
          /\ Len(tasks) = Cardinality(Kept)
          /\ \A k \in DOMAIN tasks : tasks[k] = prev[KeptAt(k)]
          /\ (Holders(prev, ReqId) = {} => tasks = prev))
  /\ [][\A seg \in Segs :
          (IsDelete /\ Delete(seg) /\ Number(seg) = ReqId)
            => tasks' = tasks]_vars

C10_Witness ==
  /\ IsDelete
  /\ Len(prev) = 3
  /\ Holders(prev, ReqId) = {2}
  /\ tasks = <<prev[1], prev[3]>>

====
